---- MODULE Spec2Model ----
(***************************************************************************)
(* Model of OutputPlugin (packages/repack/src/webpack/plugins/             *)
(* OutputPlugin.ts): entry resolution, local/remote chunk classification,  *)
(* manifest injection into the entry asset (processAssets tap) and the     *)
(* distribution step (afterEmit tap).                                      *)
(*                                                                         *)
(* Strings are sequences of tokens (single characters for chunk names and  *)
(* rules, so that prefix tests can be computed).  A chunk object is the    *)
(* pair of the compilation that created it and its position in the         *)
(* iteration order of compilation.chunks.                                  *)
(***************************************************************************)
EXTENDS Integers, Sequences, FiniteSets, TLC

\* ------------------------------------------------------------------ bounds
\* chunks per compilation in the build-pipeline specification
MaxChunks == 2
\* total number of initial-closure edges per compilation (pipeline)
MaxEdges == 1
\* compilations driven through one applied plugin instance
MaxBuilds == 2
\* chunks / closure edges per compilation in the classification specification
MaxClassifyChunks == 3
MaxClassifyEdges == 3
\* chunk groups per compilation and chunks per group (asset specification)
MaxGroups == 2
MaxGroupChunks == 1
\* files per chunk (asset specification)
MaxFiles == 2

\* undefined, for each type of value that may be undefined
Undefined == <<"undefined">>
NoRule == [kind |-> "undefined"]
NoChunk == [b |-> 0, i |-> 0]
NoGroup == 0
Null == [command |-> "null"]

\* ----------------------------------------------------------------- strings
S_main == <<"m", "a", "i", "n">>
S_detail == <<"d", "e", "t", "a", "i", "l">>
S_de == <<"d", "e">>
S_vendor == <<"v", "e", "n", "d", "o", "r">>

\* Number.prototype.toString for the chunk ids of the model
Digits == <<"1", "2", "3", "4", "5", "6", "7", "8", "9">>

IdToString(id) == <<Digits[id]>>

\* str.startsWith(prefix): what RegExp("^" + escaped(prefix)).test(str) decides
StartsWith(str, prefix) ==
    /\ Len(prefix) <= Len(str)
    /\ \A k \in 1..Len(prefix) : str[k] = prefix[k]

\* a Rule given as a string; Rule[] is a sequence of them
StringRule(s) == [kind |-> "string", value |-> s]

ListRule(rs) == [kind |-> "list", rules |-> rs]

\* webpack.ModuleFilenameHelpers.matchPart: a string rule is compiled to an
\* anchored regular expression, a list matches when some member matches
MatchPart(str, test) ==
    IF test.kind = "list"
    THEN \E k \in 1..Len(test.rules) : StartsWith(str, test.rules[k].value)
    ELSE StartsWith(str, test.value)

\* include: this.config.localChunks ?? []
IncludeOf(cfg) ==
    IF cfg.localChunks = NoRule THEN ListRule(<<>>) ELSE cfg.localChunks

\* matchObject({ include: undefined }, str): no include test, everything matches
isLocalChunkWithoutDefault(cfg, chunkId) ==
    cfg.localChunks = NoRule \/ MatchPart(chunkId, cfg.localChunks)

isLocalChunk(cfg, chunkId) == MatchPart(chunkId, IncludeOf(cfg))

\* ------------------------------------------------------------------- paths
\* a path is a sequence of segments; an absolute one starts with "/"
IsAbsolute(p) == Len(p) > 0 /\ p[1] = "/"

PathJoin(root, p) == root \o p

Dirname(p) == IF Len(p) <= 1 THEN p ELSE SubSeq(p, 1, Len(p) - 1)

\* `${bundleOutput}.map`
WithMapSuffix(p) == SubSeq(p, 1, Len(p) - 1) \o <<p[Len(p)] \o ".map">>

ResolvePaths(cli, cfg) ==
    LET args == cli.bundle
        bundleOutput == IF IsAbsolute(args.bundleOutput) THEN args.bundleOutput
                        ELSE PathJoin(cli.root, args.bundleOutput)
        bundleOutputDir == Dirname(bundleOutput)
        sm0 == IF args.sourcemapOutput = <<>> THEN WithMapSuffix(bundleOutput)
               ELSE args.sourcemapOutput
        sourcemapOutput == IF IsAbsolute(sm0) THEN sm0 ELSE PathJoin(cli.root, sm0)
        assetsDest == IF args.assetsDest = <<>> THEN bundleOutputDir
                      ELSE args.assetsDest
        rco == cfg.remoteChunksOutput
        remoteChunksOutput ==
            IF rco # Undefined /\ rco # <<>> /\ ~IsAbsolute(rco)
            THEN PathJoin(cli.root, rco) ELSE rco
    IN [bundleOutput |-> bundleOutput, bundleOutputDir |-> bundleOutputDir,
        sourcemapOutput |-> sourcemapOutput, assetsDest |-> assetsDest,
        remoteChunksOutput |-> remoteChunksOutput]

\* truthiness of the resolved remoteChunksOutput (undefined and '' are falsy)
RemoteConfigured(p) == p.remoteChunksOutput # Undefined /\ p.remoteChunksOutput # <<>>

\* the closure variables of apply before it has run
NoPaths == [bundleOutput |-> Undefined, bundleOutputDir |-> Undefined,
            sourcemapOutput |-> Undefined, assetsDest |-> Undefined,
            remoteChunksOutput |-> Undefined]

\* ------------------------------------------------------------ chunk graphs
Range(s) == {s[k] : k \in 1..Len(s)}

Min(a, b) == IF a < b THEN a ELSE b

RECURSIVE DistinctSeqsOfLen(_, _)
DistinctSeqsOfLen(S, k) ==
    IF k = 0 THEN {<<>>}
    ELSE UNION {{Append(s, x) : x \in S \ Range(s)} : s \in DistinctSeqsOfLen(S, k - 1)}

DistinctSeqs(S, m) == UNION {DistinctSeqsOfLen(S, k) : k \in 0..m}

\* chunk.getAllInitialChunks() of the chunks 1..k, each in its iteration
\* order, with at most e members in total
RECURSIVE ClosuresUpTo(_, _, _)
ClosuresUpTo(n, k, e) ==
    IF k = 0 THEN {<<>>}
    ELSE UNION {{Append(f, s) : f \in ClosuresUpTo(n, k - 1, e - Len(s))} :
                s \in DistinctSeqs(1..n, Min(n, e))}

Closures(n, e) == ClosuresUpTo(n, n, e)

\* chunk.name: chunk names are unique within a compilation, or undefined
Namings(n, pool) ==
    {f \in [1..n -> pool \cup {Undefined}] :
        \A i, j \in 1..n : (i # j /\ f[i] = f[j]) => f[i] = Undefined}

RECURSIVE SetToSeq(_)
SetToSeq(S) ==
    IF S = {} THEN <<>>
    ELSE LET m == CHOOSE x \in S : \A y \in S : x <= y
         IN <<m>> \o SetToSeq(S \ {m})

ChunkGroup(initial, chunks) == [isInitial |-> initial, chunks |-> chunks]

\* one chunk group holding every chunk
WholeGroups(n, flags) == {<<ChunkGroup(b, [k \in 1..n |-> k])>> : b \in flags}

RECURSIVE SeqsOfLen(_, _)
SeqsOfLen(S, k) ==
    IF k = 0 THEN {<<>>}
    ELSE {Append(s, x) : s \in SeqsOfLen(S, k - 1), x \in S}

\* up to m chunk groups, each over a set of at most sz chunks
AllGroups(n, m, sz) ==
    LET members == {C \in SUBSET (1..n) : Cardinality(C) <= sz}
    IN UNION {SeqsOfLen({ChunkGroup(b, SetToSeq(C)) : b \in BOOLEAN, C \in members}, k) :
              k \in 0..m}

FileName(i, k) == <<"chunk", Digits[i], "file", Digits[k]>>

FilesOf(counts, n) == [i \in 1..n |-> [k \in 1..counts[i] |-> FileName(i, k)]]

OneFileEach(n) == {FilesOf([i \in 1..n |-> 1], n)}

AnyFiles(n, m) == {FilesOf(c, n) : c \in [1..n -> 0..m]}

Graph(n, name, closure, groups, files) ==
    [n |-> n, name |-> name, closure |-> closure, groups |-> groups, files |-> files]

NamePool == {S_main, S_detail}

\* the asset store of a freshly sealed compilation: every file of every chunk
AllFiles(g) == UNION {Range(g.files[i]) : i \in 1..g.n}

InitialAssets(g) == [f \in AllFiles(g) |-> <<"source of", f>>]

\* ----------------------------------------------------------- configuration
CliArgs == [bundleOutput |-> <<"build", "index.bundle">>, assetsDest |-> <<>>,
            sourcemapOutput |-> <<>>]

CliBundle == [command |-> "bundle", root |-> <<"/", "project">>, bundle |-> CliArgs]

CliStart == [command |-> "start", root |-> <<"/", "project">>, bundle |-> CliArgs]

\* bundle arguments with every output absolute, relative or (where optional) omitted
AllCliArgs ==
    [bundleOutput : {<<"build", "index.bundle">>, <<"/", "out", "index.bundle">>},
     assetsDest : {<<>>, <<"assets">>, <<"/", "out", "assets">>},
     sourcemapOutput : {<<>>, <<"index.map">>, <<"/", "out", "index.map">>}]

CliBundleWith(args) == [command |-> "bundle", root |-> <<"/", "project">>, bundle |-> args]

PluginConfig(dev, rules, remote, entry) ==
    [platform |-> "ios", devServerEnabled |-> dev, localChunks |-> rules,
     remoteChunksOutput |-> remote, entry |-> entry]

PipelineConfigs ==
    {PluginConfig(dev, rules, remote, Undefined) :
        dev \in BOOLEAN, rules \in {NoRule, StringRule(S_de)},
        remote \in {Undefined, <<>>, <<"remote">>}}

ClassifyConfigs ==
    {PluginConfig(dev, rules, <<"remote">>, Undefined) :
        dev \in BOOLEAN,
        rules \in {NoRule, StringRule(S_de),
                   ListRule(<<StringRule(S_vendor), StringRule(<<"2">>)>>)}}

PathConfigs ==
    {PluginConfig(dev, NoRule, remote, Undefined) :
        dev \in BOOLEAN,
        remote \in {Undefined, <<>>, <<"remote">>, <<"/", "srv", "remote">>}}

\* localChunks: ['detail']
ScenarioConfigs ==
    {PluginConfig(dev, ListRule(<<StringRule(S_detail)>>), <<"remote">>, Undefined) :
        dev \in BOOLEAN}

AssetConfigs ==
    {PluginConfig(dev, rules, <<"remote">>, entry) :
        dev \in BOOLEAN, rules \in {NoRule, StringRule(S_de)},
        entry \in {Undefined, S_detail}}

\* ------------------------------------------------------------------- state
VARIABLES
    cliOptions,     \* JSON.parse(process.env[CLI_OPTIONS_ENV_KEY] ?? 'null')
    config,         \* this.config
    outputPath,     \* compilation.outputOptions.path
    phase,          \* position of the plugin in the build pipeline
    paths,          \* output paths resolved by apply
    entryGroup,     \* index of the chunk group found initial, or Undefined
    entryChunk,     \* the chunk object found in it, or Undefined
    localChunks,    \* const localChunks: webpack.Chunk[]
    remoteChunks,   \* const remoteChunks: webpack.Chunk[]
    sharedChunks,   \* sharedChunks of the last processAssets run, in insertion order
    pass1Local,     \* Len(localChunks) when pass 1 of the last run ended
    comps,          \* the chunk graphs of the compilations created so far
    assets,         \* asset store of the current compilation
    localQueue,     \* enqueueChunk calls on localAssetsCopyProcessor
    remoteQueue,    \* enqueueChunk calls on remoteAssetsCopyProcessor
    tasks           \* per processor, the completion signals of execute() by status

vars == <<cliOptions, config, outputPath, phase, paths, entryGroup, entryChunk,
          localChunks, remoteChunks, sharedChunks, pass1Local, comps, assets,
          localQueue, remoteQueue, tasks>>

envVars == <<cliOptions, config, outputPath>>

copyVars == <<localQueue, remoteQueue, tasks>>

classVars == <<entryGroup, entryChunk, localChunks, remoteChunks, sharedChunks, pass1Local>>

\* no completion signal
NoSignals == [pending |-> 0, done |-> 0, failed |-> 0]

InitFrom(clis, configs, outputPaths) ==
    /\ cliOptions \in clis
    /\ config \in configs
    /\ outputPath \in outputPaths
    /\ phase = "constructed"
    /\ paths = NoPaths
    /\ entryGroup = NoGroup
    /\ entryChunk = NoChunk
    /\ localChunks = <<>>
    /\ remoteChunks = <<>>
    /\ sharedChunks = <<>>
    /\ pass1Local = 0
    /\ comps = <<>>
    /\ assets = <<>>
    /\ localQueue = <<>>
    /\ remoteQueue = <<>>
    /\ tasks = [local |-> NoSignals, remote |-> NoSignals]

InitWith(configs, outputPaths) == InitFrom({Null, CliStart, CliBundle}, configs, outputPaths)

Init == InitWith(PipelineConfigs, {Undefined, <<"/", "dist">>})

InitClassify == InitWith(ClassifyConfigs, {<<"/", "dist">>})

InitAssets == InitWith(AssetConfigs, {<<"/", "dist">>})

InitScenario == InitWith(ScenarioConfigs, {<<"/", "dist">>})

InitPaths ==
    InitFrom({Null, CliStart} \cup {CliBundleWith(a) : a \in AllCliArgs}, PathConfigs,
             {<<"/", "dist">>})

\* ------------------------------------------------------------------- apply
\* returns early only without CLI options or for the start command
BypassWithoutDevServer(cli, cfg) == cli = Null \/ cli.command = "start"

\* !cliOptions || 'start' in cliOptions.arguments || this.config.devServerEnabled
Bypass(cli, cfg) == cli = Null \/ cli.command = "start" \/ cfg.devServerEnabled

Apply ==
    /\ phase = "constructed"
    /\ IF Bypass(cliOptions, config)
       THEN /\ phase' = "noop"
            /\ paths' = paths
       ELSE /\ phase' = "ready"
            /\ paths' = ResolvePaths(cliOptions, config)
    /\ UNCHANGED <<envVars, classVars, comps, assets, copyVars>>

\* ------------------------------------------------------- the chunk objects
Chunk(b, i) == [b |-> b, i |-> i]

\* chunk.name ?? chunk.id?.toString()
ChunkIdentity(cs, c) ==
    LET g == cs[c.b]
    IN IF g.name[c.i] # Undefined THEN g.name[c.i] ELSE IdToString(c.i)

\* [...chunk.getAllInitialChunks()]
GetAllInitialChunks(cs, c) ==
    LET cl == cs[c.b].closure[c.i]
    IN [k \in 1..Len(cl) |-> Chunk(c.b, cl[k])]

\* Set.prototype.add on a set kept in insertion order
SetAdd(s, x) == IF x \in Range(s) THEN s ELSE Append(s, x)

RECURSIVE SetAddAll(_, _, _)
SetAddAll(s, xs, k) ==
    IF k > Len(xs) THEN s ELSE SetAddAll(SetAdd(s, xs[k]), xs, k + 1)

SelectOthers(xs, c) == SelectSeq(xs, LAMBDA x : x # c)

\* ------------------------------------------------------- entry resolution
\* takes the first chunk group whether or not it is initial
FindInitialAnyGroup(groups, k) == IF k > Len(groups) THEN NoGroup ELSE k

RECURSIVE FindInitial(_, _)
FindInitial(groups, k) ==
    IF k > Len(groups) THEN NoGroup
    ELSE IF groups[k].isInitial THEN k
    ELSE FindInitial(groups, k + 1)

RECURSIVE FindNamed(_, _, _, _)
FindNamed(g, chunks, nm, k) ==
    IF k > Len(chunks) THEN 0
    ELSE IF g.name[chunks[k]] = nm THEN chunks[k]
    ELSE FindNamed(g, chunks, nm, k + 1)

EntryChunkName(cfg) == IF cfg.entry = Undefined THEN S_main ELSE cfg.entry

ResolveEntryGroup(g) == FindInitial(g.groups, 1)

ResolveEntryChunk(cfg, g, b) ==
    LET eg == ResolveEntryGroup(g)
        i == IF eg = NoGroup THEN 0
             ELSE FindNamed(g, g.groups[eg].chunks, EntryChunkName(cfg), 1)
    IN IF i = 0 THEN NoChunk ELSE Chunk(b, i)

\* ---------------------------------------------------------- classification
ClassState(shared, local, remote) == [shared |-> shared, local |-> local, remote |-> remote]

\* classifies by the entry test alone
Pass1StepEntryOnly(cfg, cs, ec, chunk, st) ==
    IF chunk \in Range(st.shared) THEN st
    ELSE LET sh == SetAddAll(st.shared, SelectOthers(GetAllInitialChunks(cs, chunk), chunk), 1)
         IN IF ec # NoChunk /\ ec = chunk
            THEN ClassState(sh, Append(st.local, chunk), st.remote)
            ELSE ClassState(sh, st.local, Append(st.remote, chunk))

\* one iteration of `for (const chunk of compilation.chunks)`
Pass1Step(cfg, cs, ec, chunk, st) ==
    IF chunk \in Range(st.shared) THEN st
    ELSE LET sh == SetAddAll(st.shared, SelectOthers(GetAllInitialChunks(cs, chunk), chunk), 1)
         IN IF ec # NoChunk /\ ec = chunk
            THEN ClassState(sh, Append(st.local, chunk), st.remote)
            ELSE IF isLocalChunk(cfg, ChunkIdentity(cs, chunk))
            THEN ClassState(sh, Append(st.local, chunk), st.remote)
            ELSE ClassState(sh, st.local, Append(st.remote, chunk))

RECURSIVE Pass1(_, _, _, _, _, _)
Pass1(cfg, cs, ec, b, i, st) ==
    IF i > cs[b].n THEN st
    ELSE Pass1(cfg, cs, ec, b, i + 1, Pass1Step(cfg, cs, ec, Chunk(b, i), st))

\* asks only the first local chunk
IsUsedByFirstLocalChunk(cs, local, sharedChunk) ==
    /\ Len(local) > 0
    /\ sharedChunk \in Range(GetAllInitialChunks(cs, local[1]))

\* localChunks.some((localChunk) => [...localChunk.getAllInitialChunks()].includes(sharedChunk))
IsUsedByLocalChunk(cs, local, sharedChunk) ==
    \E k \in 1..Len(local) : sharedChunk \in Range(GetAllInitialChunks(cs, local[k]))

\* pushes the shared chunks found local and forgets the others
SharedStepLocalOnly(cfg, cs, sharedChunk, st) ==
    IF \/ IsUsedByLocalChunk(cs, st.local, sharedChunk)
       \/ isLocalChunk(cfg, ChunkIdentity(cs, sharedChunk))
    THEN ClassState(st.shared, Append(st.local, sharedChunk), st.remote)
    ELSE st

\* one iteration of `for (const sharedChunk of sharedChunks)`
SharedStep(cfg, cs, sharedChunk, st) ==
    IF \/ IsUsedByLocalChunk(cs, st.local, sharedChunk)
       \/ isLocalChunk(cfg, ChunkIdentity(cs, sharedChunk))
    THEN ClassState(st.shared, Append(st.local, sharedChunk), st.remote)
    ELSE ClassState(st.shared, st.local, Append(st.remote, sharedChunk))

\* resolves every shared chunk against the local chunks of pass 1
SharedPassAgainstPass1(cfg, cs, k, st) ==
    LET todo == SubSeq(st.shared, k, Len(st.shared))
        isLocal(s) == \/ IsUsedByLocalChunk(cs, st.local, s)
                      \/ isLocalChunk(cfg, ChunkIdentity(cs, s))
        isRemote(s) == ~isLocal(s)
    IN ClassState(st.shared, st.local \o SelectSeq(todo, isLocal),
                  st.remote \o SelectSeq(todo, isRemote))

RECURSIVE SharedPass(_, _, _, _)
SharedPass(cfg, cs, k, st) ==
    IF k > Len(st.shared) THEN st
    ELSE SharedPass(cfg, cs, k + 1, SharedStep(cfg, cs, st.shared[k], st))

\* ------------------------------------------------------ manifest injection
RECURSIVE JsonEscape(_)
JsonEscape(s) ==
    IF s = <<>> THEN <<>>
    ELSE (IF Head(s) \in {"\"", "\\"} THEN <<"\\", Head(s)>> ELSE <<Head(s)>>)
         \o JsonEscape(Tail(s))

JsonString(s) == <<"\"">> \o JsonEscape(s) \o <<"\"">>

RECURSIVE JsonItems(_, _)
JsonItems(xs, k) ==
    IF k > Len(xs) THEN <<>>
    ELSE (IF k > 1 THEN <<",">> ELSE <<>>) \o JsonString(xs[k]) \o JsonItems(xs, k + 1)

\* JSON.stringify({ local: [...] })
JsonStringify(local) == <<"{", "\"local\"", ":", "[">> \o JsonItems(local, 1) \o <<"]", "}">>

LocalIdentities(cs, local) == [k \in 1..Len(local) |-> ChunkIdentity(cs, local[k])]

Declaration(cs, local) ==
    <<"var __CHUNKS__=">> \o JsonStringify(LocalIdentities(cs, local)) \o <<";">>

\* new webpack.sources.ConcatSource(declaration, '\n', source)
ConcatSource(decl, source) == decl \o <<"\n">> \o source

\* takes the last file of the entry chunk
MainBundleAssetNameLast(cs, ec) ==
    LET fs == cs[ec.b].files[ec.i]
    IN IF Len(fs) = 0 THEN Undefined ELSE fs[Len(fs)]

\* falls back to the first file of the compilation when the entry chunk has none
MainBundleAssetNameOrAny(cs, ec) ==
    LET fs == cs[ec.b].files[ec.i]
        have == {i \in 1..cs[ec.b].n : Len(cs[ec.b].files[i]) > 0}
    IN IF Len(fs) > 0 THEN fs[1]
       ELSE IF have = {} THEN Undefined
       ELSE cs[ec.b].files[CHOOSE i \in have : \A j \in have : i <= j][1]

\* [...entryChunk.files][0]
MainBundleAssetName(cs, ec) ==
    LET fs == cs[ec.b].files[ec.i]
    IN IF Len(fs) = 0 THEN Undefined ELSE fs[1]

\* compilation.updateAsset(name, fn): throws when the asset does not exist
UpdateAsset(store, name, newSource) == [store EXCEPT ![name] = newSource]

\* ----------------------------------------------------------- build pipeline
CanStartBuild ==
    phase \in {"ready", "processAssetsError", "afterEmitError", "success", "failed"}

\* the bundler seals a compilation: its chunk graph and asset store exist; the
\* copy processors of the previous afterEmit call are out of scope by then
SealWith(g) ==
    /\ comps' = Append(comps, g)
    /\ assets' = InitialAssets(g)
    /\ phase' = "sealed"
    /\ localQueue' = <<>>
    /\ remoteQueue' = <<>>
    /\ tasks' = [local |-> NoSignals, remote |-> NoSignals]
    /\ UNCHANGED <<envVars, paths, classVars>>

\* the first compilation has any of the pipeline graphs; a later one is a
\* rebuild that produces the same graph again, with fresh chunk objects
Seal ==
    /\ CanStartBuild
    /\ Len(comps) < MaxBuilds
    /\ IF comps = <<>>
       THEN \E n \in 1..MaxChunks :
              \E nm \in Namings(n, NamePool), cl \in Closures(n, MaxEdges),
                 gr \in WholeGroups(n, BOOLEAN), fl \in OneFileEach(n) :
                 SealWith(Graph(n, nm, cl, gr, fl))
       ELSE SealWith(comps[Len(comps)])

\* a compilation whose chunks have rich initial closures
SealClosureGraph ==
    /\ phase = "ready"
    /\ comps = <<>>
    /\ \E n \in 1..MaxClassifyChunks :
          \E nm \in Namings(n, NamePool), cl \in Closures(n, MaxClassifyEdges),
             gr \in WholeGroups(n, {TRUE}), fl \in OneFileEach(n) :
             SealWith(Graph(n, nm, cl, gr, fl))

\* a compilation with any chunk groups
SealGroupGraph ==
    /\ phase = "ready"
    /\ comps = <<>>
    /\ \E n \in 1..MaxChunks :
          \E nm \in Namings(n, NamePool), cl \in Closures(n, 0),
             gr \in AllGroups(n, MaxGroups, MaxGroupChunks), fl \in OneFileEach(n) :
             SealWith(Graph(n, nm, cl, gr, fl))

\* a compilation whose chunks have any number of files
SealFileGraph ==
    /\ phase = "ready"
    /\ comps = <<>>
    /\ \E n \in 1..MaxChunks :
          \E nm \in Namings(n, NamePool), cl \in Closures(n, 0),
             gr \in WholeGroups(n, BOOLEAN), fl \in AnyFiles(n, MaxFiles) :
             SealWith(Graph(n, nm, cl, gr, fl))

\* the chunks 'main', 'detail' and 'vendor' in any iteration order
ScenarioNamings ==
    {nm \in [1..3 -> {S_main, S_detail, S_vendor}] : \A i, j \in 1..3 : nm[i] = nm[j] => i = j}

\* 'vendor' is in the initial closure of 'main' and of 'detail'; any of the
\* three chunks may be in those closures besides, in any order
ScenarioClosures(nm) ==
    {cl \in [1..3 -> DistinctSeqs(1..3, 3)] :
        \A i \in 1..3 :
            IF nm[i] = S_vendor THEN Range(cl[i]) \subseteq {i}
            ELSE \E k \in 1..Len(cl[i]) : nm[cl[i][k]] = S_vendor}

\* a compilation of the three chunks of the vendor scenario
SealScenarioGraph ==
    /\ phase = "ready"
    /\ comps = <<>>
    /\ \E nm \in ScenarioNamings :
          \E cl \in ScenarioClosures(nm), gr \in WholeGroups(3, {TRUE}), fl \in OneFileEach(3) :
             SealWith(Graph(3, nm, cl, gr, fl))

\* a compilation of the entry chunk 'main' and unnamed chunks, no closures
SealPlainGraph ==
    /\ phase = "ready"
    /\ comps = <<>>
    /\ \E n \in 1..MaxChunks :
          \E cl \in Closures(n, 0), gr \in WholeGroups(n, {TRUE}), fl \in OneFileEach(n) :
             SealWith(Graph(n, [i \in 1..n |-> IF i = 1 THEN S_main ELSE Undefined],
                            cl, gr, fl))

\* the processAssets tap
ProcessAssets ==
    /\ phase = "sealed"
    /\ LET b == Len(comps)
           g == comps[b]
           ec == ResolveEntryChunk(config, g, b)
           st1 == Pass1(config, comps, ec, b, 1, ClassState(<<>>, localChunks, remoteChunks))
           st2 == SharedPass(config, comps, 1, st1)
           name == IF ec = NoChunk THEN Undefined ELSE MainBundleAssetName(comps, ec)
       IN /\ entryGroup' = ResolveEntryGroup(g)
          /\ entryChunk' = ec
          /\ sharedChunks' = st2.shared
          /\ pass1Local' = Len(st1.local)
          /\ localChunks' = st2.local
          /\ remoteChunks' = st2.remote
          /\ IF ec = NoChunk \/ name \notin DOMAIN assets
             THEN /\ phase' = "processAssetsError"
                  /\ assets' = assets
             ELSE /\ phase' = "assetsProcessed"
                  /\ assets' = UpdateAsset(assets, name,
                                  ConcatSource(Declaration(comps, st2.local), assets[name]))
    /\ UNCHANGED <<envVars, paths, comps, copyVars>>

\* ---------------------------------------------------------------- afterEmit
\* one enqueueChunk call
Enqueued(chunk, isEntry) == [chunk |-> chunk, isEntry |-> isEntry]

LocalEnqueue(ec, local) == [k \in 1..Len(local) |-> Enqueued(local[k], ec = local[k])]

\* enqueues the remote chunks without asking for remoteChunksOutput
RemoteEnqueueAlways(p, remote) == [k \in 1..Len(remote) |-> Enqueued(remote[k], FALSE)]

RemoteEnqueue(p, remote) ==
    IF RemoteConfigured(p)
    THEN [k \in 1..Len(remote) |-> Enqueued(remote[k], FALSE)]
    ELSE <<>>

\* the paths given to new AssetsCopyProcessor for the local chunks
LocalProcessorConfig(p, out) ==
    [outputPath |-> out, bundleOutput |-> p.bundleOutput,
     bundleOutputDir |-> p.bundleOutputDir, sourcemapOutput |-> p.sourcemapOutput,
     assetsDest |-> p.assetsDest]

\* the paths given to new AssetsCopyProcessor for the remote chunks
\* (remoteChunksOutput ?? '')
RemoteProcessorConfig(p, out) ==
    LET dir == IF p.remoteChunksOutput = Undefined THEN <<>> ELSE p.remoteChunksOutput
    IN [outputPath |-> out, bundleOutput |-> <<>>, bundleOutputDir |-> dir,
        sourcemapOutput |-> <<>>, assetsDest |-> dir]

\* AssetsCopyProcessor.execute(): one completion signal per queued artifact,
\* all of them pending
Execute(queue) == [pending |-> Len(queue), done |-> 0, failed |-> 0]

\* awaits the signals of the local processor only
AllSettledLocalOnly(ts) ==
    IF ts.local.failed > 0 THEN "failed"
    ELSE IF ts.local.pending = 0 THEN "success"
    ELSE "awaiting"

\* Promise.all over the signals of both processors
AllSettled(ts) ==
    IF ts.local.failed + ts.remote.failed > 0 THEN "failed"
    ELSE IF ts.local.pending + ts.remote.pending = 0 THEN "success"
    ELSE "awaiting"

\* the afterEmit tap, up to its await
AfterEmit ==
    /\ phase = "assetsProcessed"
    /\ IF outputPath = Undefined
       THEN /\ phase' = "afterEmitError"
            /\ UNCHANGED copyVars
       ELSE LET lq == LocalEnqueue(entryChunk, localChunks)
                rq == RemoteEnqueue(paths, remoteChunks)
                ts == [local |-> Execute(lq), remote |-> Execute(rq)]
            IN /\ localQueue' = lq
               /\ remoteQueue' = rq
               /\ tasks' = ts
               /\ phase' = AllSettled(ts)
    /\ UNCHANGED <<envVars, paths, classVars, comps, assets>>

\* one copy completes; the awaited Promise.all settles in the same turn
CopyDone ==
    /\ phase = "awaiting"
    /\ \E p \in {"local", "remote"} :
          /\ tasks[p].pending > 0
          /\ tasks' = [tasks EXCEPT ![p].pending = @ - 1, ![p].done = @ + 1]
    /\ phase' = AllSettled(tasks')
    /\ UNCHANGED <<envVars, paths, classVars, comps, assets, localQueue, remoteQueue>>

CopyFail ==
    /\ phase = "awaiting"
    /\ \E p \in {"local", "remote"} :
          /\ tasks[p].pending > 0
          /\ tasks' = [tasks EXCEPT ![p].pending = @ - 1, ![p].failed = @ + 1]
    /\ phase' = AllSettled(tasks')
    /\ UNCHANGED <<envVars, paths, classVars, comps, assets, localQueue, remoteQueue>>

\* a build after apply returned early: no tap is registered on the compilation
\* hook, so the bundler seals the compilation with no handler of the plugin
SealUntapped ==
    /\ phase = "noop"
    /\ Len(comps) < MaxBuilds
    /\ IF comps = <<>>
       THEN \E n \in 1..MaxChunks :
              \E nm \in Namings(n, NamePool), cl \in Closures(n, MaxEdges),
                 gr \in WholeGroups(n, BOOLEAN), fl \in OneFileEach(n) :
                 /\ comps' = Append(comps, Graph(n, nm, cl, gr, fl))
                 /\ assets' = InitialAssets(Graph(n, nm, cl, gr, fl))
       ELSE /\ comps' = Append(comps, comps[Len(comps)])
            /\ assets' = InitialAssets(comps[Len(comps)])
    /\ phase' = "noopSealed"
    /\ UNCHANGED <<envVars, paths, classVars, copyVars>>

\* the processAssets and afterEmit stages of that build pass with no handler
EmitUntapped ==
    /\ phase = "noopSealed"
    /\ phase' = "noop"
    /\ UNCHANGED <<envVars, paths, classVars, comps, assets, copyVars>>

\* the plugin through successive builds, distribution included
Next ==
    \/ Apply
    \/ Seal
    \/ ProcessAssets
    \/ AfterEmit
    \/ CopyDone
    \/ CopyFail
    \/ SealUntapped
    \/ EmitUntapped

Spec == Init /\ [][Next]_vars

\* one build with any combination of output paths
NextPaths ==
    \/ Apply
    \/ SealPlainGraph
    \/ ProcessAssets
    \/ AfterEmit
    \/ CopyDone
    \/ CopyFail

SpecPaths == InitPaths /\ [][NextPaths]_vars

\* one build of the vendor scenario
NextScenario == Apply \/ SealScenarioGraph \/ ProcessAssets

SpecScenario == InitScenario /\ [][NextScenario]_vars

\* one build over graphs with rich initial closures
NextClassify == Apply \/ SealClosureGraph \/ ProcessAssets

SpecClassify == InitClassify /\ [][NextClassify]_vars

\* one build over graphs with any chunk groups or file lists, and any entry name
NextAssets == Apply \/ SealGroupGraph \/ SealFileGraph \/ ProcessAssets

SpecAssets == InitAssets /\ [][NextAssets]_vars

\* ------------------------------------------------------------------ claims
Count(xs, x) == Cardinality({k \in 1..Len(xs) : xs[k] = x})

Build == Len(comps)

\* the chunk objects of the current compilation
CurChunks == IF comps = <<>> THEN {} ELSE {Chunk(Build, i) : i \in 1..comps[Build].n}

\* the processAssets tap has classified the chunks of the current compilation
Classified ==
    phase \in {"assetsProcessed", "processAssetsError", "awaiting", "afterEmitError",
               "success", "failed"}

\* the afterEmit tap has enqueued its work
Distributed == phase \in {"awaiting", "success", "failed"}

Local == Range(localChunks)

Remote == Range(remoteChunks)

\* C1: after classification of a graph whose entry chunk was resolved, no
\* chunk is in both collections and none is twice in one of them.
C1_ClassifiedAtMostOnce ==
    (Classified /\ entryChunk # NoChunk) =>
        \A c \in CurChunks : Count(localChunks, c) + Count(remoteChunks, c) <= 1

\* C2: when entry resolution succeeded, the entry chunk is in the Local
\* collection and not in the Remote collection.
C2_EntryIsLocal ==
    (Classified /\ entryChunk # NoChunk) =>
        entryChunk \in Local /\ entryChunk \notin Remote

\* C3 (as stated): every other chunk in the initial closure of a chunk of the
\* Local collection is in the Local and not in the Remote collection.
C3_ClosureOfLocalIsLocal ==
    Classified =>
        \A l \in Local : \A s \in Range(GetAllInitialChunks(comps, l)) \ {l} :
            s \in Local /\ s \notin Remote

\* the chunks of the current compilation that pass 1 put in the Local collection
Pass1Local == {localChunks[k] : k \in 1..pass1Local} \cap CurChunks

\* C3 (amended): every other chunk in the initial closure of a chunk that
\* pass 1 put in the Local collection is in the Local collection, and it is
\* not in the Remote collection when that chunk is iterated before it.
C3_ClosureOfPass1LocalIsLocal ==
    Classified =>
        \A l \in Pass1Local : \A s \in Range(GetAllInitialChunks(comps, l)) \ {l} :
            /\ s \in Local
            /\ l.i < s.i => s \notin Remote

\* a chunk matching no rule became Local through the closure of a pass-1 Local
\* chunk that is iterated before it
C3_Witness ==
    /\ Classified
    /\ \E l \in Pass1Local : \E s \in Range(GetAllInitialChunks(comps, l)) \ {l} :
          /\ l.i < s.i
          /\ ~isLocalChunk(config, ChunkIdentity(comps, s))
          /\ s # entryChunk
          /\ s \in Local

\* C4: after classification every chunk of the graph is in the Local or in
\* the Remote collection.
C4_NoChunkOmitted ==
    Classified => \A c \in CurChunks : c \in Local \cup Remote

\* a chunk that pass 1 skipped as shared was classified Remote by the shared pass
C4_Witness ==
    /\ Classified
    /\ \E c \in Range(sharedChunks) :
          Count(localChunks, c) = 0 /\ Count(remoteChunks, c) = 1

QueueCount(q, c) == Cardinality({k \in 1..Len(q) : q[k].chunk = c})

\* C5: with a remote output directory, afterEmit enqueues every chunk of the
\* graph exactly once: Local chunks on the local, Remote chunks on the remote
\* processor.
C5_EnqueuedExactlyOnce ==
    (Distributed /\ config.remoteChunksOutput \notin {Undefined, <<>>}) =>
        \A c \in CurChunks :
            /\ QueueCount(localQueue, c) + QueueCount(remoteQueue, c) = 1
            /\ c \in Local => QueueCount(localQueue, c) = 1
            /\ c \in Remote => QueueCount(remoteQueue, c) = 1

\* the classification of the current graph started from empty collections
FreshClassification ==
    LET ec == ResolveEntryChunk(config, comps[Build], Build)
    IN SharedPass(config, comps, 1,
                  Pass1(config, comps, ec, Build, 1, ClassState(<<>>, <<>>, <<>>)))

\* C6: the collections of a build hold chunks of that build's graph only, and
\* are what classifying that graph alone yields.
C6_FreshPerBuild ==
    Classified =>
        /\ \A c \in Local \cup Remote : c.b = Build
        /\ localChunks = FreshClassification.local
        /\ remoteChunks = FreshClassification.remote

\* no initial chunk group, or the first one has no chunk with the entry name
EntryMissing(cfg, g) ==
    LET initial == {k \in 1..Len(g.groups) : g.groups[k].isInitial}
    IN \/ initial = {}
       \/ LET first == CHOOSE k \in initial : \A j \in initial : k <= j
          IN \A i \in Range(g.groups[first].chunks) : g.name[i] # EntryChunkName(cfg)

\* C7: when the entry chunk cannot be resolved, processAssets fails and no
\* asset has been modified.
C7_EntryMissingFails ==
    [][(phase = "sealed" /\ EntryMissing(config, comps[Build])) =>
          (phase' = "processAssetsError" /\ assets' = assets)]_vars

\* processAssets failed on a graph whose initial chunk group lacks the entry name
C7_Witness ==
    /\ phase = "processAssetsError"
    /\ entryGroup # NoGroup
    /\ EntryMissing(config, comps[Build])
    /\ DOMAIN assets # {}

\* C8: afterEmit succeeds only when every completion signal of both
\* processors succeeded, fails when one failed, and nothing is enqueued or
\* run again.
C8_AwaitsAllSignals ==
    /\ [](phase = "success" =>
            /\ tasks.local.done = Len(localQueue)
            /\ tasks.remote.done = Len(remoteQueue))
    /\ [](tasks.local.failed + tasks.remote.failed > 0 => phase = "failed")
    /\ [][(Distributed /\ Build' = Build) =>
            /\ localQueue' = localQueue
            /\ remoteQueue' = remoteQueue
            /\ \A p \in {"local", "remote"} :
                  /\ tasks'[p].pending <= tasks[p].pending
                  /\ tasks'[p].done >= tasks[p].done
                  /\ tasks'[p].failed >= tasks[p].failed
                  /\ tasks'[p].pending + tasks'[p].done + tasks'[p].failed
                        = tasks[p].pending + tasks[p].done + tasks[p].failed]_vars

\* afterEmit succeeded after copies of both processors
C8_Witness ==
    /\ phase = "success"
    /\ tasks.local.done > 0
    /\ tasks.remote.done > 0

\* C9: without remoteChunksOutput nothing is enqueued or copied on the remote
\* processor, and every Local chunk is enqueued on the local processor.
C9_NoRemoteDistribution ==
    (Distributed /\ config.remoteChunksOutput \in {Undefined, <<>>}) =>
        /\ remoteQueue = <<>>
        /\ tasks.remote = NoSignals
        /\ Len(localQueue) = Len(localChunks)
        /\ \A k \in 1..Len(localChunks) : localQueue[k].chunk = localChunks[k]

\* distribution ran without remoteChunksOutput on a graph with Remote chunks
C9_Witness ==
    /\ Distributed
    /\ config.remoteChunksOutput = Undefined
    /\ remoteChunks # <<>>
    /\ localQueue # <<>>

\* C10: manifest injection replaces the first file of the entry chunk by the
\* declaration of the Local identities, a newline and the previous content,
\* and leaves every other asset as it was.
C10_InjectionFrame ==
    [][(phase = "sealed" /\ phase' = "assetsProcessed") =>
          LET first == comps[entryChunk'.b].files[entryChunk'.i][1]
              decl == <<"var __CHUNKS__=", "{", "\"local\"", ":", "[">>
          IN /\ DOMAIN assets' = DOMAIN assets
             /\ \A f \in DOMAIN assets \ {first} : assets'[f] = assets[f]
             /\ assets'[first] # assets[first]
             /\ assets'[first] =
                   Declaration(comps, localChunks') \o <<"\n">> \o assets[first]
             /\ SubSeq(assets'[first], 1, Len(decl)) = decl]_vars

\* the manifest was injected for an entry chunk with a second file, next to
\* the file of another chunk, and it lists two Local chunks
C10_Witness ==
    /\ phase = "assetsProcessed"
    /\ Len(comps[Build].files[entryChunk.i]) >= 2
    /\ \E c \in CurChunks \ {entryChunk} : Len(comps[Build].files[c.i]) >= 1
    /\ Len(localChunks) >= 2

\* the identity of the chunk matches a configured localChunks rule
MatchesRule(c) ==
    config.localChunks # NoRule /\ MatchPart(ChunkIdentity(comps, c), config.localChunks)

\* the chunk is in the initial closure of a chunk of the Local collection
InLocalClosure(c) == \E l \in Local : c \in Range(GetAllInitialChunks(comps, l))

\* C11: after classification a chunk that is not the entry chunk, matches no
\* localChunks rule and is in the initial closure of no Local chunk is in the
\* Remote and not in the Local collection; without localChunks every Local
\* chunk of the graph is the entry chunk or in the initial closure of a Local
\* chunk.
C11_UnmatchedUnsharedIsRemote ==
    Classified =>
        /\ \A c \in CurChunks :
              (c # entryChunk /\ ~MatchesRule(c) /\ ~InLocalClosure(c)) =>
                  (c \in Remote /\ c \notin Local)
        /\ config.localChunks = NoRule =>
              \A l \in Local \cap CurChunks : l = entryChunk \/ InLocalClosure(l)

\* under a configured rule, a deferred chunk that matches none and is used by
\* no Local chunk was resolved Remote, next to a chunk that is Local by rule
C11_Witness ==
    /\ Classified
    /\ config.localChunks # NoRule
    /\ \E c \in Range(sharedChunks) :
          /\ c # entryChunk /\ ~MatchesRule(c) /\ ~InLocalClosure(c)
          /\ c \in Remote
    /\ \E l \in Local : l # entryChunk /\ MatchesRule(l)

\* the files of the entry chunk resolved by the processAssets run
EntryFiles == comps[entryChunk.b].files[entryChunk.i]

\* C12: when the resolved entry chunk has no file, processAssets fails and the
\* asset store is left as it was; otherwise it succeeds and the first file of
\* the entry chunk is the one asset that changed.
C12_EntryWithoutFilesFails ==
    [][(phase = "sealed" /\ entryChunk' # NoChunk) =>
          IF EntryFiles' = <<>>
          THEN phase' = "processAssetsError" /\ assets' = assets
          ELSE /\ phase' = "assetsProcessed"
               /\ DOMAIN assets' = DOMAIN assets
               /\ {f \in DOMAIN assets : assets'[f] # assets[f]} = {EntryFiles'[1]}]_vars

\* processAssets failed for an entry chunk without files while another chunk
\* had files in the asset store
C12_Witness ==
    /\ phase = "processAssetsError"
    /\ entryChunk # NoChunk
    /\ EntryFiles = <<>>
    /\ DOMAIN assets # {}

\* C13: without CLI options, for the start command or with devServerEnabled,
\* whatever builds the bundler runs, no chunk is classified, no asset is
\* modified and no chunk is enqueued.
C13_BypassIsNoop ==
    (phase # "constructed" /\ (cliOptions = Null \/ cliOptions.command = "start"
                                 \/ config.devServerEnabled)) =>
        /\ localChunks = <<>> /\ remoteChunks = <<>> /\ sharedChunks = <<>>
        /\ entryChunk = NoChunk
        /\ localQueue = <<>> /\ remoteQueue = <<>>
        /\ tasks = [local |-> NoSignals, remote |-> NoSignals]
        /\ comps # <<>> => assets = InitialAssets(comps[Build])

\* with devServerEnabled on a bundle command, a second build of a graph with
\* an entry chunk has gone through its stages
C13_Witness ==
    /\ phase = "noop"
    /\ cliOptions = CliBundle
    /\ config.devServerEnabled
    /\ Build = 2
    /\ ResolveEntryChunk(config, comps[Build], Build) # NoChunk

\* C14: the bundle output, source-map output and assets destination given to
\* the local processor, and the directory given to the remote processor when
\* remoteChunksOutput is configured, are absolute paths.
C14_DestinationsAbsolute ==
    Distributed =>
        LET l == LocalProcessorConfig(paths, outputPath)
            r == RemoteProcessorConfig(paths, outputPath)
        IN /\ IsAbsolute(l.bundleOutput)
           /\ IsAbsolute(l.bundleOutputDir)
           /\ IsAbsolute(l.sourcemapOutput)
           /\ IsAbsolute(l.assetsDest)
           /\ RemoteConfigured(paths) =>
                 (IsAbsolute(r.bundleOutputDir) /\ IsAbsolute(r.assetsDest))

\* the chunk of the current compilation with the given name
ChunkNamed(nm) == Chunk(Build, CHOOSE i \in 1..comps[Build].n : comps[Build].name[i] = nm)

DetailInMainClosure ==
    ChunkNamed(S_detail) \in Range(GetAllInitialChunks(comps, ChunkNamed(S_main)))

\* C15 (as stated): in the vendor scenario under the rule ['detail'],
\* Local = {main, vendor} and Remote = {detail} when 'detail' is not in the
\* closure of 'main', and 'detail' is Local when it is.
C15_ScenarioDetailRemote ==
    Classified =>
        IF DetailInMainClosure
        THEN ChunkNamed(S_detail) \in Local
        ELSE /\ Local = {ChunkNamed(S_main), ChunkNamed(S_vendor)}
             /\ Remote = {ChunkNamed(S_detail)}

\* C15 (amended): in the vendor scenario under the rule ['detail'] all three
\* chunks are Local, whether or not 'detail' is in the closure of 'main';
\* Remote is empty, except that it holds 'vendor' when 'vendor' is iterated
\* first.
C15_ScenarioAllLocal ==
    Classified =>
        /\ Local = {ChunkNamed(S_main), ChunkNamed(S_detail), ChunkNamed(S_vendor)}
        /\ Remote = IF comps[Build].name[1] = S_vendor THEN {ChunkNamed(S_vendor)} ELSE {}

\* the scenario was classified with 'detail' outside the closure of 'main' and
\* 'vendor' deferred to the shared pass
C15_Witness ==
    /\ Classified
    /\ ~DetailInMainClosure
    /\ ChunkNamed(S_vendor) \in Range(sharedChunks)
    /\ comps[Build].name[1] = S_main
    /\ ChunkNamed(S_detail) \in Local
    /\ Remote = {}

\* the chunks the shared pass of the last run pushed to the Local collection
SharedLocal == Range(SubSeq(localChunks, pass1Local + 1, Len(localChunks)))

\* the collections as pass 1 of the last run left them
Pass1LocalSeq == SubSeq(localChunks, 1, pass1Local)

Pass1RemoteSeq ==
    SubSeq(remoteChunks, 1,
           Len(remoteChunks) - (Len(sharedChunks) - (Len(localChunks) - pass1Local)))

InClosureOfSome(s, ls) == \E l \in ls : s \in Range(GetAllInitialChunks(comps, l))

\* C16 (as stated): a shared chunk becomes Local iff it is in the initial
\* closure of a chunk that pass 1 classified Local or matches the rule set, and
\* the resulting Local and Remote sets are the same for every order in which
\* the shared chunks are resolved.
C16_SharedAgainstPass1Only ==
    Classified =>
        /\ \A s \in Range(sharedChunks) :
              s \in SharedLocal <=> (MatchesRule(s) \/ InClosureOfSome(s, Range(Pass1LocalSeq)))
        /\ \A order \in DistinctSeqsOfLen(Range(sharedChunks), Len(sharedChunks)) :
              LET r == SharedPass(config, comps, 1,
                                  ClassState(order, Pass1LocalSeq, Pass1RemoteSeq))
              IN Range(r.local) = Local /\ Range(r.remote) = Remote

\* C16 (amended): a shared chunk becomes Local iff it matches the rule set or
\* is in the initial closure of a chunk that pass 1 classified Local or of a
\* shared chunk resolved Local before it; otherwise it becomes Remote.
C16_SharedAgainstLocalSoFar ==
    Classified =>
        \A k \in 1..Len(sharedChunks) :
            LET s == sharedChunks[k]
                promoted == {sharedChunks[j] : j \in 1..(k - 1)} \cap SharedLocal
            IN /\ s \in SharedLocal <=>
                     (MatchesRule(s) \/ InClosureOfSome(s, Range(Pass1LocalSeq) \cup promoted))
               /\ s \notin SharedLocal => s \in Remote

\* a shared chunk that matches no rule and is in the closure of no pass-1
\* Local chunk became Local through a shared chunk promoted before it
C16_Witness ==
    /\ Classified
    /\ entryChunk # NoChunk
    /\ \E k \in 1..Len(sharedChunks) : \E j \in 1..(k - 1) :
          /\ sharedChunks[j] \in SharedLocal
          /\ sharedChunks[k] \in Range(GetAllInitialChunks(comps, sharedChunks[j]))
          /\ ~MatchesRule(sharedChunks[k])
          /\ ~InClosureOfSome(sharedChunks[k], Range(Pass1LocalSeq))
          /\ sharedChunks[k] \in SharedLocal

\* the enqueueChunk calls of the afterEmit run that carried isEntry = true
EntryEnqueues(q) == {k \in 1..Len(q) : q[k].isEntry}

\* C17: when processAssets succeeded, afterEmit enqueues the entry chunk on
\* the local processor with isEntry = true exactly once, and every other
\* enqueue on either processor has isEntry = false.
C17_OneEntryEnqueue ==
    Distributed =>
        /\ Cardinality(EntryEnqueues(localQueue)) = 1
        /\ \A k \in EntryEnqueues(localQueue) : localQueue[k].chunk = entryChunk
        /\ EntryEnqueues(remoteQueue) = {}

\* the orders in which compilation.chunks can iterate the chunks 1..n
Orderings(n) == DistinctSeqsOfLen(1..n, n)

\* the graph g with chunk i at position pos[i] of the iteration order: same
\* chunks, names, initial closures, chunk groups and files
Reordered(g, pos) ==
    LET at == [p \in 1..g.n |-> CHOOSE i \in 1..g.n : pos[i] = p]
        moved(xs) == [k \in 1..Len(xs) |-> pos[xs[k]]]
    IN Graph(g.n,
             [p \in 1..g.n |-> g.name[at[p]]],
             [p \in 1..g.n |-> moved(g.closure[at[p]])],
             [k \in 1..Len(g.groups) |->
                 ChunkGroup(g.groups[k].isInitial, moved(g.groups[k].chunks))],
             [p \in 1..g.n |-> g.files[at[p]]])

\* classification of a single compilation of g, from empty collections
ClassificationOf(g) ==
    LET ec == ResolveEntryChunk(config, g, 1)
    IN SharedPass(config, <<g>>, 1,
                  Pass1(config, <<g>>, ec, 1, 1, ClassState(<<>>, <<>>, <<>>)))

\* C18: for every other iteration order of the chunks of the graph,
\* classification yields the same set of Local and the same set of Remote
\* chunks.
C18_OrderIndependent ==
    (Classified /\ Build = 1) =>
        \A pos \in Orderings(comps[1].n) :
            LET r == ClassificationOf(Reordered(comps[1], pos))
            IN /\ Range(r.local) = {Chunk(1, pos[c.i]) : c \in Local}
               /\ Range(r.remote) = {Chunk(1, pos[c.i]) : c \in Remote}

\* some chunk group flagged initial holds a chunk with the configured entry name
EntryInSomeInitialGroup(cfg, g) ==
    \E k \in 1..Len(g.groups) :
        /\ g.groups[k].isInitial
        /\ \E i \in Range(g.groups[k].chunks) : g.name[i] = EntryChunkName(cfg)

\* C19: when some initial chunk group holds a chunk with the configured entry
\* name, processAssets resolves the entry chunk (it does not fail for an entry
\* chunk it cannot infer).
C19_EntryInAnyInitialGroupResolves ==
    (Classified /\ EntryInSomeInitialGroup(config, comps[Build])) =>
        entryChunk # NoChunk

====
